---- MODULE Spec2Model ----
(***************************************************************************)
(* Lifecycle of MCPClient (langchain_skilder/mcp_only.py; MCPToolset in    *)
(* langchain_2ly/mcp.py has the same start/stop/_run_session).             *)
(*                                                                         *)
(* The program runs on one asyncio event loop: a coroutine runs without    *)
(* interruption from one suspension point (an await that really suspends)  *)
(* to the next.  Each action below is one such segment of a caller task or *)
(* of a runner task.  The segments are written as functions from the       *)
(* program state S (a record of all fields) to the state after the         *)
(* segment, so that a method calling another (start() calling stop(),      *)
(* call_tool() calling start()) is function application.                   *)
(***************************************************************************)
EXTENDS Naturals, Sequences, FiniteSets, TLC

\* ------------------------------------------------------------------ bounds
NumCallers == 2      \* caller tasks using the one instance
MaxRunners == 2      \* start() attempts that launch a runner task
MaxTools == 2        \* tools the remote session lists at most

Callers == 1..NumCallers
Runners == 1..MaxRunners

\* Python None for the task, future and session references.
None == 0
\* "no exception"
NoExc == "none"
\* what the transport launch, the handshake or the live session can raise
ExcKinds == {"Error", "TimeoutError"}
ToolNames == {"tA", "tB"}
Arguments == {"{}", "{q: 1}"}

\* ----------------------------------------------------------- construction
\* Python None for the optional string arguments of the constructor; for
\* nats_servers and version: the argument was not passed.
Absent == "<None>"

\* The argument values tried.
Names == {Absent, "", "My Agent"}
WorkspaceKeys == {Absent, "", "WSK_1"}
SkillKeys == {Absent, "", "SKL_9"}
NatsServers == {Absent, "nats://broker:4222"}
Versions == {Absent, "1.2.3"}
LogLevels == {Absent, "", "debug"}

\* The calls of the constructor tried.
Configs ==
    [name : Names, workspace_key : WorkspaceKeys, skill_key : SkillKeys,
     nats_servers : NatsServers, version : Versions, log_level : LogLevels]

\* The truth value Python gives an Optional[str] in `if v` / `not v`.
Truthy(v) == v # Absent /\ v # ""

\* The value of a parameter: the default when the argument was not passed.
Param(v, default) == IF v = Absent THEN default ELSE v

\* No ValueError.
Valid == "valid"

\* _validate_auth accepting everything but two keys at once.
validate_auth_conflict_only(name, workspace_key, skill_key) ==
    IF workspace_key # Absent /\ skill_key # Absent
    THEN "Authentication conflict"
    ELSE Valid

\* _validate_auth testing the name against None instead of its truth value.
validate_auth_name_is_none(name, workspace_key, skill_key) ==
    LET has_workspace_key == workspace_key # Absent
        has_skill_key == skill_key # Absent
    IN IF ~has_workspace_key /\ ~has_skill_key THEN "Authentication required"
       ELSE IF has_workspace_key /\ has_skill_key THEN "Authentication conflict"
       ELSE IF has_workspace_key /\ name = Absent
       THEN "must provide a 'name' parameter"
       ELSE IF has_skill_key /\ name # Absent
       THEN "do not provide a 'name' parameter"
       ELSE Valid

\* _validate_auth (lines 46-83): the rule named by the ValueError it raises,
\* or Valid when it returns.
validate_auth(name, workspace_key, skill_key) ==
    LET has_workspace_key == workspace_key # Absent
        has_skill_key == skill_key # Absent
    IN IF ~has_workspace_key /\ ~has_skill_key THEN "Authentication required"
       ELSE IF has_workspace_key /\ has_skill_key THEN "Authentication conflict"
       ELSE IF has_workspace_key /\ ~Truthy(name)
       THEN "must provide a 'name' parameter"
       ELSE IF has_skill_key /\ Truthy(name)
       THEN "do not provide a 'name' parameter"
       ELSE Valid

\* env[k] = v on a dict.
SetItem(d, k, v) == [x \in DOMAIN d \cup {k} |-> IF x = k THEN v ELSE d[x]]

\* The environment with LOG_LEVEL always set, "info" when none was given.
build_env_default_log_level(cfg) ==
    LET e0 == [x \in {"NATS_SERVERS"} |->
                  Param(cfg.nats_servers, "nats://localhost:4222")]
        e1 == IF Truthy(cfg.workspace_key)
              THEN SetItem(SetItem(e0, "WORKSPACE_KEY", cfg.workspace_key),
                           "SKILL_NAME", cfg.name)
              ELSE IF Truthy(cfg.skill_key)
              THEN SetItem(e0, "SKILL_KEY", cfg.skill_key)
              ELSE e0
    IN SetItem(e1, "LOG_LEVEL", Param(cfg.log_level, "info"))

\* Lines 208-219: the environment of the runtime process.
build_env(cfg) ==
    LET e0 == [x \in {"NATS_SERVERS"} |->
                  Param(cfg.nats_servers, "nats://localhost:4222")]
        e1 == IF Truthy(cfg.workspace_key)
              THEN SetItem(SetItem(e0, "WORKSPACE_KEY", cfg.workspace_key),
                           "SKILL_NAME", cfg.name)
              ELSE IF Truthy(cfg.skill_key)
              THEN SetItem(e0, "SKILL_KEY", cfg.skill_key)
              ELSE e0
    IN IF Truthy(cfg.log_level) THEN SetItem(e1, "LOG_LEVEL", cfg.log_level)
       ELSE e1

\* Lines 221-227: command and arguments of the runtime process.  The
\* version parameter (default "latest") is not used.
server_command(cfg) ==
    [command |-> "node",
     args |-> <<"/Users/ben/web/alpinai/Skilder/packages/runtime/dist/index.js">>]

\* Before the constructor was called.
NotConstructed == [ok |-> FALSE, error |-> "not constructed"]

\* MCPClient.__init__ (lines 202-237): the ValueError of _validate_auth, or
\* the object with its name and serverParams.
MCPClient_init(cfg) ==
    LET error == validate_auth(cfg.name, cfg.workspace_key, cfg.skill_key) IN
    IF error # Valid THEN [ok |-> FALSE, error |-> error]
    ELSE [ok |-> TRUE, name |-> cfg.name,
          serverParams |-> [command |-> server_command(cfg).command,
                            args |-> server_command(cfg).args,
                            env |-> build_env(cfg)]]

\* The instance whose lifecycle is followed: MCPClient(skill_key="SKL_9").
DefaultConfig ==
    [name |-> Absent, workspace_key |-> Absent, skill_key |-> "SKL_9",
     nats_servers |-> Absent, version |-> Absent, log_level |-> Absent]

\* ---------------------------------------------------- the remote tools
\* A tool as the session lists it (mcp.types.Tool): its description and its
\* inputSchema may be None.
ToolDescriptions == {Absent, "A"}
ToolSchemas == {Absent, "{type: object}"}
Descriptors ==
    [name : ToolNames, description : ToolDescriptions,
     inputSchema : ToolSchemas]

\* The answers to a list-tools request tried: tools_result.tools.
RemoteToolLists == UNION {[1..n -> Descriptors] : n \in 0..MaxTools}

\* The tools of the server the instance is started against: one listed in
\* full, one with neither description nor schema.
DefaultTools ==
    <<[name |-> "tA", description |-> "A", inputSchema |-> "{type: object}"],
      [name |-> "tB", description |-> Absent, inputSchema |-> Absent]>>

\* The empty dict {}.
EmptyMapping == "{}"

\* `input_schema or {}`: None and the empty dict give {}.
OrEmptyMapping(v) == IF v \in {Absent, EmptyMapping} THEN EmptyMapping ELSE v

\* MCPTool.__init__ (lines 94-103): the tool object, by its name, its
\* description and its _input_schema.
MCPTool_init(name, description, input_schema) ==
    [name |-> name, description |-> description,
     input_schema |-> OrEmptyMapping(input_schema)]

\* The MCPTool of a listed tool, its description passed on as it is.
langchain_tool_keeps_absent(tool) ==
    MCPTool_init(tool.name, tool.description, tool.inputSchema)

\* Lines 421-426: the MCPTool of a listed tool.
langchain_tool(tool) ==
    MCPTool_init(tool.name,
                 IF Truthy(tool.description) THEN tool.description ELSE "",
                 OrEmptyMapping(tool.inputSchema))

\* Lines 419-429: the loop over tools_result.tools, appending in turn.
RECURSIVE langchain_tools(_)
langchain_tools(tools) ==
    IF tools = <<>> THEN <<>>
    ELSE <<langchain_tool(Head(tools))>> \o langchain_tools(Tail(tools))

\* The scan returning the last tool of that name.
RECURSIVE get_tool_by_name_scan_last(_, _)
get_tool_by_name_scan_last(tools, tool_name) ==
    IF tools = <<>> THEN <<>>
    ELSE LET later == get_tool_by_name_scan_last(Tail(tools), tool_name)
         IN IF later # <<>> THEN later
            ELSE IF Head(tools).name = tool_name THEN <<Head(tools)>>
            ELSE <<>>

\* Lines 465-468: the scan of get_tool_by_name; <<>> stands for None, <<t>>
\* for the tool t.
RECURSIVE get_tool_by_name_scan(_, _)
get_tool_by_name_scan(tools, tool_name) ==
    IF tools = <<>> THEN <<>>
    ELSE IF Head(tools).name = tool_name THEN <<Head(tools)>>
    ELSE get_tool_by_name_scan(Tail(tools), tool_name)

VARIABLES
    config,             \* the arguments of the constructor call
    client,             \* what the constructor call gave: object or error
    remote_tools,       \* the tools the remote session lists when asked
    started,            \* self._started
    session,            \* self._session: None or the session of runner r
    runner_task,        \* self._runner_task: None or runner r
    started_future,     \* self._started_future: None or the future of attempt r
    stop_requested,     \* self._stop_requested
    runner_exception,   \* self._runner_exception: NoExc or an exception kind
    lock,               \* self._lock: [holder, waiters]
    run,                \* the runner tasks ever created: run[r] is a record
    fut,                \* the readiness futures ever created: fut[r]
    cl,                 \* the caller tasks: cl[c] is a record
    last                \* the public operation that ended last, and how

vars == <<config, client, remote_tools, started, session, runner_task, started_future,
          stop_requested, runner_exception, lock, run, fut, cl, last>>

\* The program state as one record, and its assignment to the variables.
Cur ==
    [remote_tools |-> remote_tools,
     started |-> started, session |-> session, runner_task |-> runner_task,
     started_future |-> started_future, stop_requested |-> stop_requested,
     runner_exception |-> runner_exception, lock |-> lock, run |-> run,
     fut |-> fut, cl |-> cl, last |-> last]

Becomes(S) ==
    /\ UNCHANGED <<config, client>>
    /\ remote_tools' = S.remote_tools
    /\ started' = S.started
    /\ session' = S.session
    /\ runner_task' = S.runner_task
    /\ started_future' = S.started_future
    /\ stop_requested' = S.stop_requested
    /\ runner_exception' = S.runner_exception
    /\ lock' = S.lock
    /\ run' = S.run
    /\ fut' = S.fut
    /\ cl' = S.cl
    /\ last' = S.last

\* A runner task that was never created.
Unborn == [pc |-> "unborn", exc |-> NoExc, cancel |-> FALSE,
           opened |-> FALSE, closes |-> 0, inited |-> FALSE]

NoReq == [s |-> None, kind |-> "none", name |-> "none", arguments |-> "none"]
IdleCaller == [pc |-> "idle", op |-> "none", aw |-> None, ctx |-> "direct",
               req |-> NoReq]
\* No dict returned.
NoDict == [content |-> <<>>, isError |-> FALSE]
\* No tools returned.
NoTools == <<>>
\* No operation has ended yet.
NoLast == [c |-> None, op |-> "none", k |-> "none", d |-> "none",
           result |-> NoDict, tools |-> NoTools]

\* The fields after __init__ (lines 229-237); no task and no future exist.
Init ==
    /\ remote_tools = DefaultTools
    /\ config = DefaultConfig
    /\ client = MCPClient_init(DefaultConfig)
    /\ started = FALSE
    /\ session = None
    /\ runner_task = None
    /\ started_future = None
    /\ stop_requested = FALSE
    /\ runner_exception = NoExc
    /\ lock = [holder |-> None, waiters |-> <<>>]
    /\ run = [r \in Runners |-> Unborn]
    /\ fut = [r \in Runners |-> "none"]
    /\ cl = [c \in Callers |-> IdleCaller]
    /\ last = NoLast

Launched(S) == {r \in Runners : S.run[r].pc # "unborn"}
Terminated(S, r) == S.run[r].pc = "done"
Alive(S, r) == S.run[r].pc \in {"launch", "handshake", "idle", "closing"}

\* ------------------------------------------------------- end of an operation
\* The public operation of caller c returns v / raises the exception `kind`
\* (with cause `detail`); the caller task is between operations again.
Return(S, c, v) ==
    [S EXCEPT !.cl[c] = IdleCaller,
              !.last = [c |-> c, op |-> S.cl[c].op, k |-> "ok", d |-> v,
                        result |-> NoDict, tools |-> NoTools]]

\* The operation returns the dict `result`.
ReturnDict(S, c, result) ==
    [Return(S, c, "dict") EXCEPT !.last.result = result]

\* The operation returns tool objects: a list of them ("tools"), one of them
\* ("tool") or None.
ReturnTools(S, c, v, tools) ==
    [Return(S, c, v) EXCEPT !.last.tools = tools]

Raise(S, c, kind, detail) ==
    [S EXCEPT !.cl[c] = IdleCaller,
              !.last = [c |-> c, op |-> S.cl[c].op, k |-> kind, d |-> detail,
                        result |-> NoDict, tools |-> NoTools]]

\* ------------------------------------------------------------ asyncio.Lock
\* Lock.release(): the lock is free again; the first waiter is woken and takes
\* it when it next runs (asyncio.Lock is FIFO: a newcomer does not overtake).
release(S) == [S EXCEPT !.lock.holder = None]

\* ------------------------------------------------ _run_session (387-408)
\* set_result on the future self._started_future names without the test
\* `not done()`: on a future that is done it raises InvalidStateError.
resolve_unguarded(S) ==
    IF S.started_future = None THEN S
    ELSE IF S.fut[S.started_future] = "pending"
    THEN [S EXCEPT !.fut[S.started_future] = "done"]
    ELSE [S EXCEPT !.fut[S.started_future] = "InvalidStateError"]

\* The except clause that records the exception but resolves nothing.
run_except_finally_silent(S, r, e) ==
    LET S1 == IF e # NoExc THEN [S EXCEPT !.runner_exception = e] ELSE S
    IN [S1 EXCEPT !.session = None,
                  !.run[r].pc = "done", !.run[r].exc = e,
                  !.run[r].cancel = FALSE]

\* Lines 398-399 and 404-405: resolve the future self._started_future names
\* now, unless there is none or it is done (a cancelled future is done).
resolve(S) ==
    IF S.started_future # None /\ S.fut[S.started_future] = "pending"
    THEN [S EXCEPT !.fut[S.started_future] = "done"]
    ELSE S

\* The end of the task without the finally clause of lines 407-408.
run_except_finally_keeps_handle(S, r, e) ==
    LET S1 == IF e # NoExc
              THEN resolve([S EXCEPT !.runner_exception = e])
              ELSE S
    IN [S1 EXCEPT !.run[r].pc = "done", !.run[r].exc = e,
                  !.run[r].cancel = FALSE]

\* Lines 402-408: the except clause (when an exception e left the try body)
\* and the finally clause; the task is then finished with outcome e.
run_except_finally(S, r, e) ==
    LET S1 == IF e # NoExc
              THEN resolve([S EXCEPT !.runner_exception = e])
              ELSE S
    IN [S1 EXCEPT !.session = None,
                  !.run[r].pc = "done", !.run[r].exc = e,
                  !.run[r].cancel = FALSE]

\* Lines 394-397: stdio_client and ClientSession are entered, the session is
\* stored in self._session, and initialize() is awaited.
run_launch_ok(S, r) ==
    [S EXCEPT !.session = r, !.run[r].opened = TRUE, !.run[r].pc = "handshake"]

\* Line 394 raises e: no channel was yielded, nothing to close.
run_launch_fail(S, r, e) == run_except_finally(S, r, e)

\* Lines 397-401: initialize() returned; resolve the future; enter the idle
\* loop, or leave it at once when stop was already requested.
run_init_ok(S, r) ==
    LET S1 == resolve([S EXCEPT !.run[r].inited = TRUE])
    IN [S1 EXCEPT !.run[r].pc = IF S.stop_requested THEN "closing" ELSE "idle"]

\* An exception e leaves the body of the two `async with` (initialize()
\* raised, the live session broke, or the task was cancelled): their
\* __aexit__ run next.
run_body_raises(S, r, e) ==
    [S EXCEPT !.run[r].pc = "closing", !.run[r].exc = e, !.run[r].cancel = FALSE]

\* Lines 400-401: the poll after a sleep sees _stop_requested and leaves the loop.
run_poll(S, r) == [S EXCEPT !.run[r].pc = "closing"]

\* A cancellation that ends the task at once, leaving what the two `async
\* with` opened as it is.
run_cancelled_abrupt(S, r) ==
    run_except_finally(S, r, IF S.run[r].exc = NoExc THEN "CancelledError"
                             ELSE S.run[r].exc)

\* Task.cancel() took effect: CancelledError is thrown at the runner's
\* suspension point.
run_cancelled(S, r) ==
    CASE S.run[r].pc = "launch" -> run_except_finally(S, r, "CancelledError")
      [] S.run[r].pc \in {"handshake", "idle"} ->
            run_body_raises(S, r, "CancelledError")
      [] OTHER ->  \* "closing": the cleanup goes on, the task ends cancelled
            [S EXCEPT !.run[r].cancel = FALSE,
                      !.run[r].exc = IF @ = NoExc THEN "CancelledError" ELSE @]

\* The __aexit__ of ClientSession and stdio_client finished (session and
\* channel closed); then the except and finally clauses.
run_close(S, r) ==
    run_except_finally([S EXCEPT !.run[r].closes = @ + 1], r, S.run[r].exc)

\* Task.cancel(): a finished task ignores it.
cancel(S, t) ==
    IF Terminated(S, t) THEN S ELSE [S EXCEPT !.run[t].cancel = TRUE]

\* ------------------------------------- get_langchain_tools / call_tool
\* Lines 416-417, after start() returned: the assert, then the request.
get_langchain_tools_rest(S, c) ==
    IF S.session = None
    THEN Raise(S, c, "AssertionError", "none")
    ELSE [S EXCEPT !.cl[c].pc = "req_wait",
                   !.cl[c].req = [s |-> S.session, kind |-> "list_tools",
                                  name |-> S.cl[c].req.name,
                                  arguments |-> "none"]]

\* Line 456, holding the lock: self._session is read again.
call_tool_locked(S, c) ==
    IF S.session = None
    THEN Raise(release(S), c, "AttributeError", "none")
    ELSE [S EXCEPT !.cl[c].pc = "req_wait",
                   !.cl[c].req = [s |-> S.session, kind |-> "call_tool",
                                  name |-> S.cl[c].req.name,
                                  arguments |-> S.cl[c].req.arguments]]

\* call_tool without the `async with self._lock` of line 455.
call_tool_rest_unlocked(S, c) ==
    IF S.session = None
    THEN Raise(S, c, "AssertionError", "none")
    ELSE call_tool_locked(S, c)

\* call_tool taking the lock whenever it is free, also when another
\* invocation was woken for it and has not run yet.
call_tool_rest_barging(S, c) ==
    IF S.session = None
    THEN Raise(S, c, "AssertionError", "none")
    ELSE IF S.lock.holder = None
    THEN call_tool_locked([S EXCEPT !.lock.holder = c], c)
    ELSE [S EXCEPT !.lock.waiters = Append(@, c), !.cl[c].pc = "lock_wait"]

\* Lines 454-455, after start() returned: the assert, then `async with
\* self._lock`, which does not suspend when the lock is free and unawaited.
call_tool_rest(S, c) ==
    IF S.session = None
    THEN Raise(S, c, "AssertionError", "none")
    ELSE IF S.lock.holder = None /\ S.lock.waiters = <<>>
    THEN call_tool_locked([S EXCEPT !.lock.holder = c], c)
    ELSE [S EXCEPT !.lock.waiters = Append(@, c), !.cl[c].pc = "lock_wait"]

\* What follows `await self.start()` in the operation caller c is running;
\* `how` tells which return of start() was taken: "already_started" (line
\* 342) or "started" (line 364).
AfterStart(S, c, how) ==
    CASE S.cl[c].op = "start" -> Return(S, c, how)
      [] S.cl[c].op = "scope" -> [S EXCEPT !.cl[c].pc = "body"]   \* 321-322
      [] S.cl[c].op = "list_tools" -> get_langchain_tools_rest(S, c)
      [] S.cl[c].op = "get_tool_by_name" -> get_langchain_tools_rest(S, c)
      [] S.cl[c].op = "call_tool" -> call_tool_rest(S, c)

\* -------------------------------------------------------- stop (366-385)
\* stop() is over with exception e (NoExc: it returned).  ctx says who called
\* it: "startfail" is line 362 of start(), whose line 363 then raises the
\* startup-failed error from self._runner_exception; "direct" is a stop()
\* or __aexit__ (line 325) of the caller; "bodyraised" is an __aexit__ run
\* because the scope's body raised, whose exception goes on after __aexit__
\* returned.
\* `how` tells which way stop() went: "noop" (the return of line 369) or
\* "stopped" (through the finally clause).
stop_return(S, c, ctx, e, how) ==
    IF e # NoExc THEN Raise(S, c, e, "none")
    ELSE IF ctx = "startfail"
    THEN Raise(S, c, "StartupFailed", S.runner_exception)
    ELSE IF ctx = "bodyraised"
    THEN Raise(S, c, "BodyError", "none")
    ELSE Return(S, c, how)

\* Lines 381-385: the finally clause.
stop_finally(S, c, ctx, e) ==
    stop_return([S EXCEPT !.runner_task = None, !.started_future = None,
                          !.session = None, !.started = FALSE],
                c, ctx, e, "stopped")

\* Lines 375-378: the handler of asyncio.TimeoutError reads
\* self._runner_task again, cancels it and awaits it, suppressing what the
\* await raises.
stop_on_timeout(S, c, ctx) ==
    LET t == S.runner_task IN
    IF t = None THEN stop_finally(S, c, ctx, "AttributeError")
    ELSE IF Terminated(S, t) THEN stop_finally(S, c, ctx, NoExc)
    ELSE [cancel(S, t) EXCEPT !.cl[c].pc = "stop_cancel_wait",
                              !.cl[c].aw = t, !.cl[c].ctx = ctx]

\* Line 374 is over because the awaited task t finished: wait_for raises what
\* the task raised.  TimeoutError goes to the handler of line 375,
\* CancelledError to line 379, anything else out of stop().
stop_awaited(S, c, ctx, t) ==
    CASE S.run[t].exc = NoExc -> stop_finally(S, c, ctx, NoExc)
      [] S.run[t].exc = "TimeoutError" -> stop_on_timeout(S, c, ctx)
      [] S.run[t].exc = "CancelledError" -> stop_finally(S, c, ctx, NoExc)
      [] OTHER -> stop_finally(S, c, ctx, S.run[t].exc)

\* Line 374 is over because the timeout expired: wait_for cancelled the task
\* t, waited for it to finish and now raises TimeoutError when the task ended
\* cancelled, and otherwise what the task raised (it returns when the task
\* returned all the same).
stop_timeout_awaited(S, c, ctx, t) ==
    CASE S.run[t].exc = NoExc -> stop_finally(S, c, ctx, NoExc)
      [] S.run[t].exc \in {"CancelledError", "TimeoutError"} ->
            stop_on_timeout(S, c, ctx)
      [] OTHER -> stop_finally(S, c, ctx, S.run[t].exc)

\* stop() without the check of line 368.
stop_unguarded(S, c, ctx) ==
    LET S1 == [S EXCEPT !.stop_requested = TRUE]
        t == S.runner_task
    IN IF t = None THEN stop_finally(S1, c, ctx, NoExc)
       ELSE IF Terminated(S1, t) THEN stop_awaited(S1, c, ctx, t)
       ELSE [S1 EXCEPT !.cl[c].pc = "stop_wait", !.cl[c].aw = t,
                       !.cl[c].ctx = ctx]

\* stop() without the assignment of line 371.
stop_without_request(S, c, ctx) ==
    IF ~S.started /\ S.runner_task = None
    THEN stop_return(S, c, ctx, NoExc, "noop")
    ELSE LET t == S.runner_task
         IN IF t = None THEN stop_finally(S, c, ctx, NoExc)
            ELSE IF Terminated(S, t) THEN stop_awaited(S, c, ctx, t)
            ELSE [S EXCEPT !.cl[c].pc = "stop_wait", !.cl[c].aw = t,
                           !.cl[c].ctx = ctx]

\* stop() without the await of line 374.
stop_without_wait(S, c, ctx) ==
    IF ~S.started /\ S.runner_task = None
    THEN stop_return(S, c, ctx, NoExc, "noop")
    ELSE stop_finally([S EXCEPT !.stop_requested = TRUE], c, ctx, NoExc)

\* Lines 368-374: stop() up to its first suspension.  Awaiting a finished
\* task does not suspend.
stop(S, c, ctx) ==
    IF ~S.started /\ S.runner_task = None
    THEN stop_return(S, c, ctx, NoExc, "noop")
    ELSE LET S1 == [S EXCEPT !.stop_requested = TRUE]
             t == S.runner_task
         IN IF t = None THEN stop_finally(S1, c, ctx, NoExc)
            ELSE IF Terminated(S1, t) THEN stop_awaited(S1, c, ctx, t)
            ELSE [S1 EXCEPT !.cl[c].pc = "stop_wait", !.cl[c].aw = t,
                            !.cl[c].ctx = ctx]

\* ------------------------------------------------------- start (335-364)
\* The end of the timeout handler without lines 357-358.
start_timeout_cleanup_partial(S, c) ==
    Raise([S EXCEPT !.runner_task = None, !.started = FALSE],
          c, "StartupTimeout", "none")

\* Lines 356-360: the end of the timeout handler.
start_timeout_cleanup(S, c) ==
    Raise([S EXCEPT !.runner_task = None, !.started_future = None,
                    !.session = None, !.started = FALSE],
          c, "StartupTimeout", "none")

\* The timeout handler awaiting the task without the cancel() of line 353.
start_on_timeout_without_cancel(S, c) ==
    LET S1 == [S EXCEPT !.stop_requested = TRUE]
        t == S.runner_task
    IN IF t = None \/ Terminated(S1, t) THEN start_timeout_cleanup(S1, c)
       ELSE [S1 EXCEPT !.cl[c].pc = "start_cancel_wait", !.cl[c].aw = t]

\* Lines 350-355: the handler of asyncio.TimeoutError sets _stop_requested,
\* cancels the task self._runner_task names now and awaits it.
start_on_timeout(S, c) ==
    LET S1 == [S EXCEPT !.stop_requested = TRUE]
        t == S.runner_task
    IN IF t = None \/ Terminated(S1, t) THEN start_timeout_cleanup(S1, c)
       ELSE [cancel(S1, t) EXCEPT !.cl[c].pc = "start_cancel_wait",
                                  !.cl[c].aw = t]

\* Lines 361-364: the awaited future was resolved.
start_resume(S, c) ==
    IF S.runner_exception # NoExc
    THEN stop(S, c, "startfail")
    ELSE AfterStart([S EXCEPT !.started = TRUE], c, "started")

\* The next runner task (and future) start() creates.
NewRunner(S) == Cardinality(Launched(S)) + 1

\* start() without the reset of line 343.
start_keeps_exception(S, c) ==
    IF S.started THEN AfterStart(S, c, "already_started")
    ELSE LET r == NewRunner(S) IN
         [S EXCEPT !.started_future = r, !.fut[r] = "pending",
                   !.stop_requested = FALSE,
                   !.runner_task = r, !.run[r].pc = "launch",
                   !.cl[c].pc = "start_wait", !.cl[c].aw = r]

\* start() without the check of line 341.
start_unguarded(S, c) ==
    LET r == NewRunner(S) IN
    [S EXCEPT !.runner_exception = NoExc,
              !.started_future = r, !.fut[r] = "pending",
              !.stop_requested = FALSE,
              !.runner_task = r, !.run[r].pc = "launch",
              !.cl[c].pc = "start_wait", !.cl[c].aw = r]

\* start() without the reset of line 345.
start_keeps_stop_request(S, c) ==
    IF S.started THEN AfterStart(S, c, "already_started")
    ELSE LET r == NewRunner(S) IN
         [S EXCEPT !.runner_exception = NoExc,
                   !.started_future = r, !.fut[r] = "pending",
                   !.runner_task = r, !.run[r].pc = "launch",
                   !.cl[c].pc = "start_wait", !.cl[c].aw = r]

\* Lines 341-349: start() up to its first suspension.  The new task r runs
\* _run_session up to the await of stdio_client's __aenter__ (a task created
\* by create_task runs before any timer with a positive delay can fire).
start(S, c) ==
    IF S.started THEN AfterStart(S, c, "already_started")
    ELSE LET r == NewRunner(S) IN
         [S EXCEPT !.runner_exception = NoExc,
                   !.started_future = r, !.fut[r] = "pending",
                   !.stop_requested = FALSE,
                   !.runner_task = r, !.run[r].pc = "launch",
                   !.cl[c].pc = "start_wait", !.cl[c].aw = r]

\* ---------------------------------------------------- the remote session
\* What the session answers to call_tool(name, arguments): a result object
\* whose content is that of this tool for these arguments, flagged as an
\* error or not, with the other attributes a result object has.
RemoteResult(name, arguments, isError) ==
    [content |-> <<name, arguments>>, isError |-> isError,
     structuredContent |-> "none", meta |-> "none"]

\* Lines 457-460: the dict call_tool returns.
call_tool_result(result) ==
    [content |-> result.content, isError |-> result.isError]

\* Lines 417-429 and 464-468: the session answered the list-tools request of
\* caller c.  get_langchain_tools returns the MCPTool list; get_tool_by_name
\* (its tool_name is kept in req.name) scans that list.
tools_listed(S, c) ==
    LET tools == langchain_tools(S.remote_tools) IN
    IF S.cl[c].op = "get_tool_by_name"
    THEN LET found == get_tool_by_name_scan(tools, S.cl[c].req.name)
         IN ReturnTools(S, c, IF found = <<>> THEN "None" ELSE "tool", found)
    ELSE ReturnTools(S, c, "tools", tools)

\* request_done raising when the session's answer is flagged as an error.
request_done_raising(S, c, ok, isError) ==
    LET q == S.cl[c].req
        S1 == IF q.kind = "call_tool" THEN release(S) ELSE S
    IN IF ~ok THEN Raise(S1, c, "TransportError", "none")
       ELSE IF isError THEN Raise(S1, c, "ToolError", "none")
       ELSE IF q.kind = "call_tool"
       THEN ReturnDict(S1, c, call_tool_result(
                RemoteResult(q.name, q.arguments, isError)))
       ELSE tools_listed(S1, c)

\* request_done keeping the lock when the request raised.
request_done_keeps_lock(S, c, ok, isError) ==
    LET q == S.cl[c].req
        S1 == IF q.kind = "call_tool" THEN release(S) ELSE S
    IN IF ~ok THEN Raise(S, c, "TransportError", "none")
       ELSE IF q.kind = "call_tool"
       THEN ReturnDict(S1, c, call_tool_result(
                RemoteResult(q.name, q.arguments, isError)))
       ELSE tools_listed(S1, c)

\* The request of caller c is answered (ok) or raises a transport error.
\* Leaving `async with self._lock` releases the lock either way.
request_done(S, c, ok, isError) ==
    LET q == S.cl[c].req
        S1 == IF q.kind = "call_tool" THEN release(S) ELSE S
    IN IF ~ok THEN Raise(S1, c, "TransportError", "none")
       ELSE IF q.kind = "call_tool"
       THEN ReturnDict(S1, c, call_tool_result(
                RemoteResult(q.name, q.arguments, isError)))
       ELSE tools_listed(S1, c)

\* ------------------------------------------------------ caller operations
\* Caller c begins a public operation.
Begin(S, c, o, name) ==
    [S EXCEPT !.cl[c] = [IdleCaller EXCEPT !.op = o, !.req.name = name],
              !.last = NoLast]

CanLaunch == started \/ Cardinality(Launched(Cur)) < MaxRunners

CallStart(c) ==
    /\ cl[c].pc = "idle" /\ CanLaunch
    /\ Becomes(start(Begin(Cur, c, "start", "none"), c))

CallStop(c) ==
    /\ cl[c].pc = "idle"
    /\ Becomes(stop(Begin(Cur, c, "stop", "none"), c, "direct"))

\* get_langchain_tools() without the start() of line 415.
CallListTools_without_start(c) ==
    /\ cl[c].pc = "idle"
    /\ Becomes(get_langchain_tools_rest(Begin(Cur, c, "list_tools", "none"), c))

\* get_langchain_tools(), list_tools(): line 415.
CallListTools(c) ==
    /\ cl[c].pc = "idle" /\ CanLaunch
    /\ Becomes(start(Begin(Cur, c, "list_tools", "none"), c))

\* get_tool_by_name(tool_name): line 464, then line 415.
CallGetToolByName(c) ==
    /\ cl[c].pc = "idle" /\ CanLaunch
    /\ \E tool_name \in ToolNames :
          Becomes(start(Begin(Cur, c, "get_tool_by_name", tool_name), c))

\* The server lists other tools from now on.
RemoteChange ==
    \E tools \in RemoteToolLists \ {remote_tools} :
        Becomes([Cur EXCEPT !.remote_tools = tools])

\* call_tool(name, arguments): line 453.
CallTool(c) ==
    /\ cl[c].pc = "idle" /\ CanLaunch
    /\ \E name \in ToolNames, arguments \in Arguments :
          Becomes(start([Begin(Cur, c, "call_tool", name)
                            EXCEPT !.cl[c].req.arguments = arguments], c))

\* `async with client`: __aenter__, line 321.
EnterScope(c) ==
    /\ cl[c].pc = "idle" /\ CanLaunch
    /\ Becomes(start(Begin(Cur, c, "scope", "none"), c))

\* __aexit__ without the stop() of line 325.
ExitScope_without_stop(c) ==
    /\ cl[c].pc = "body"
    /\ \E ctx \in {"direct", "bodyraised"} :
          Becomes(stop_return(Cur, c, ctx, NoExc, "noop"))

\* The body of the scope is left, normally or by an exception: __aexit__,
\* line 325.
ExitScope(c) ==
    /\ cl[c].pc = "body"
    /\ \E ctx \in {"direct", "bodyraised"} : Becomes(stop(Cur, c, ctx))

\* Line 349: the future start() waits for is done.
StartWake(c) ==
    /\ cl[c].pc = "start_wait" /\ fut[cl[c].aw] = "done"
    /\ Becomes(start_resume(Cur, c))

\* Line 349: the startup timeout expires first; wait_for cancels the future.
StartTimeout(c) ==
    /\ cl[c].pc = "start_wait" /\ fut[cl[c].aw] = "pending"
    /\ Becomes([Cur EXCEPT !.fut[cl[c].aw] = "cancelled",
                           !.cl[c].pc = "start_timedout"])

\* Lines 350-355: start() resumes with asyncio.TimeoutError.
StartTimeoutHandler(c) ==
    /\ cl[c].pc = "start_timedout"
    /\ Becomes(start_on_timeout(Cur, c))

\* Line 355: the cancelled task finished.
StartCancelDone(c) ==
    /\ cl[c].pc = "start_cancel_wait" /\ Terminated(Cur, cl[c].aw)
    /\ Becomes(start_timeout_cleanup(Cur, c))

\* Line 374: the task stop() waits for finished within the timeout.
StopWake(c) ==
    /\ cl[c].pc = "stop_wait" /\ Terminated(Cur, cl[c].aw)
    /\ Becomes(stop_awaited(Cur, c, cl[c].ctx, cl[c].aw))

\* Line 374: the timeout expires first; wait_for cancels the task it awaits
\* and goes on once that task has finished.
StopTimeout(c) ==
    /\ cl[c].pc = "stop_wait" /\ ~Terminated(Cur, cl[c].aw)
    /\ Becomes([cancel(Cur, cl[c].aw) EXCEPT !.cl[c].pc = "stop_timeout_wait"])

StopTimeoutWake(c) ==
    /\ cl[c].pc = "stop_timeout_wait" /\ Terminated(Cur, cl[c].aw)
    /\ Becomes(stop_timeout_awaited(Cur, c, cl[c].ctx, cl[c].aw))

\* Line 378: the task cancelled by the handler finished.
StopCancelDone(c) ==
    /\ cl[c].pc = "stop_cancel_wait" /\ Terminated(Cur, cl[c].aw)
    /\ Becomes(stop_finally(Cur, c, cl[c].ctx, NoExc))

\* Line 455: the first waiter takes the released lock.
LockAcquire(c) ==
    /\ cl[c].pc = "lock_wait" /\ lock.holder = None
    /\ lock.waiters # <<>> /\ Head(lock.waiters) = c
    /\ Becomes(call_tool_locked(
           [Cur EXCEPT !.lock = [holder |-> c, waiters |-> Tail(lock.waiters)]], c))

\* Lines 417 and 456: the session answers the request, or the request raises.
Response(c) ==
    /\ cl[c].pc = "req_wait"
    /\ \E ok \in BOOLEAN, isError \in BOOLEAN :
          /\ (cl[c].req.kind = "list_tools" \/ ~ok) => ~isError
          /\ Becomes(request_done(Cur, c, ok, isError))

\* ------------------------------------------------------- runner steps
RunnerLaunchOK(r) ==
    /\ run[r].pc = "launch" /\ ~run[r].cancel
    /\ Becomes(run_launch_ok(Cur, r))

RunnerLaunchFail(r) ==
    /\ run[r].pc = "launch" /\ ~run[r].cancel
    /\ \E e \in ExcKinds : Becomes(run_launch_fail(Cur, r, e))

RunnerInitOK(r) ==
    /\ run[r].pc = "handshake" /\ ~run[r].cancel
    /\ Becomes(run_init_ok(Cur, r))

RunnerInitFail(r) ==
    /\ run[r].pc = "handshake" /\ ~run[r].cancel
    /\ \E e \in ExcKinds : Becomes(run_body_raises(Cur, r, e))

RunnerPoll(r) ==
    /\ run[r].pc = "idle" /\ ~run[r].cancel /\ stop_requested
    /\ Becomes(run_poll(Cur, r))

\* The live session or the process breaks while the runner idles.
RunnerCrash(r) ==
    /\ run[r].pc = "idle" /\ ~run[r].cancel
    /\ \E e \in ExcKinds : Becomes(run_body_raises(Cur, r, e))

RunnerCancelled(r) ==
    /\ run[r].cancel /\ Alive(Cur, r)
    /\ Becomes(run_cancelled(Cur, r))

RunnerClose(r) ==
    /\ run[r].pc = "closing"
    /\ Becomes(run_close(Cur, r))

CallerStep(c) ==
    \/ CallStart(c) \/ CallStop(c) \/ CallListTools(c) \/ CallTool(c)
    \/ EnterScope(c) \/ ExitScope(c)
    \/ StartWake(c) \/ StartTimeout(c) \/ StartTimeoutHandler(c)
    \/ StartCancelDone(c)
    \/ StopWake(c) \/ StopTimeout(c) \/ StopTimeoutWake(c) \/ StopCancelDone(c)
    \/ LockAcquire(c) \/ Response(c)

RunnerStep(r) ==
    \/ RunnerLaunchOK(r) \/ RunnerLaunchFail(r) \/ RunnerInitOK(r)
    \/ RunnerInitFail(r) \/ RunnerPoll(r) \/ RunnerCrash(r)
    \/ RunnerCancelled(r) \/ RunnerClose(r)

Next == (\E c \in Callers : CallerStep(c)) \/ (\E r \in Runners : RunnerStep(r))

Spec == Init /\ [][Next]_vars

\* One caller task using the instance, one operation after the other.  The
\* lock is then never contended and stop() never finds another task than the
\* one it awaited, so LockAcquire and StopCancelDone are never enabled.
SeqCallerStep(c) ==
    \/ CallStart(c) \/ CallStop(c) \/ CallListTools(c) \/ CallTool(c)
    \/ EnterScope(c) \/ ExitScope(c)
    \/ StartWake(c) \/ StartTimeout(c) \/ StartTimeoutHandler(c)
    \/ StartCancelDone(c)
    \/ StopWake(c) \/ StopTimeout(c) \/ StopTimeoutWake(c)
    \/ Response(c)

NextSeq == SeqCallerStep(1) \/ (\E r \in Runners : RunnerStep(r))

SpecSeq == Init /\ [][NextSeq]_vars

\* The event loop and the runner task under SpecSeq.  A coroutine whose
\* awaited future or task is done is resumed; the timer of start()'s wait_for
\* fires while the future stays pending; a runner sleeping in its idle loop
\* wakes up and tests the flag, a cancelled runner gets its CancelledError,
\* and the exits of its `async with` blocks come to an end.  The launch and
\* the handshake may take for ever, and nothing has to fail.
FairSeq ==
    /\ WF_vars(StartWake(1)) /\ WF_vars(StartTimeout(1))
    /\ WF_vars(StartTimeoutHandler(1)) /\ WF_vars(StartCancelDone(1))
    /\ WF_vars(StopWake(1)) /\ WF_vars(StopTimeoutWake(1))
    /\ \A r \in Runners :
          /\ WF_vars(RunnerPoll(r))
          /\ WF_vars(RunnerCancelled(r))
          /\ WF_vars(RunnerClose(r))

SpecSeqFair == Init /\ [][NextSeq]_vars /\ FairSeq

\* Caller tasks that only start and stop the instance, concurrently.
StartStopStep(c) ==
    \/ CallStart(c) \/ CallStop(c)
    \/ StartWake(c) \/ StartTimeout(c) \/ StartTimeoutHandler(c)
    \/ StartCancelDone(c)
    \/ StopWake(c) \/ StopTimeout(c) \/ StopTimeoutWake(c) \/ StopCancelDone(c)

NextStartStop ==
    (\E c \in Callers : StartStopStep(c)) \/ (\E r \in Runners : RunnerStep(r))

SpecStartStop == Init /\ [][NextStartStop]_vars

\* Callers using a started instance concurrently.  The state a first start()
\* leaves: runner 1 idles with its session open (reachable under Spec, see
\* ReadyReachable).
ReadyInit ==
    /\ remote_tools = DefaultTools
    /\ config = DefaultConfig
    /\ client = MCPClient_init(DefaultConfig)
    /\ started = TRUE
    /\ session = 1
    /\ runner_task = 1
    /\ started_future = 1
    /\ stop_requested = FALSE
    /\ runner_exception = NoExc
    /\ lock = [holder |-> None, waiters |-> <<>>]
    /\ run = [r \in Runners |->
                IF r = 1 THEN [pc |-> "idle", exc |-> NoExc, cancel |-> FALSE,
                               opened |-> TRUE, closes |-> 0, inited |-> TRUE]
                ELSE Unborn]
    /\ fut = [r \in Runners |-> IF r = 1 THEN "done" ELSE "none"]
    /\ cl = [c \in Callers |-> IdleCaller]
    /\ last = [c |-> 1, op |-> "start", k |-> "ok", d |-> "started",
               result |-> NoDict, tools |-> NoTools]

\* The callers only list and call tools; nobody calls stop(), the session
\* may break at any time.
NextCalls ==
    \/ \E c \in Callers :
          CallListTools(c) \/ CallTool(c) \/ LockAcquire(c) \/ Response(c)
    \/ \E r \in Runners : RunnerCrash(r) \/ RunnerClose(r)

\* The event loop runs a woken lock waiter, and every request sent is
\* answered or fails.
FairCalls ==
    \A c \in Callers : WF_vars(LockAcquire(c)) /\ WF_vars(Response(c))

SpecCalls == ReadyInit /\ [][NextCalls]_vars /\ FairCalls

\* Callers listing and looking up tools on a started instance whose server
\* may change its tools between two requests.
NextTools ==
    \/ \E c \in Callers :
          CallListTools(c) \/ CallGetToolByName(c) \/ Response(c)
    \/ RemoteChange

SpecTools == ReadyInit /\ [][NextTools]_vars

\* ------------------------------------------- validation and construction
\* A call MCPClient(**config) is about to be made, for any arguments.
ConfigInit ==
    /\ remote_tools = DefaultTools
    /\ config \in Configs
    /\ client = NotConstructed
    /\ started = FALSE
    /\ session = None
    /\ runner_task = None
    /\ started_future = None
    /\ stop_requested = FALSE
    /\ runner_exception = NoExc
    /\ lock = [holder |-> None, waiters |-> <<>>]
    /\ run = [r \in Runners |-> Unborn]
    /\ fut = [r \in Runners |-> "none"]
    /\ cl = [c \in Callers |-> IdleCaller]
    /\ last = NoLast

\* _validate_auth(name, workspace_key, skill_key) called on its own.
ValidateAuth ==
    /\ last = NoLast
    /\ LET error == validate_auth(config.name, config.workspace_key,
                                  config.skill_key)
       IN last' = [c |-> None, op |-> "_validate_auth",
                   k |-> IF error = Valid THEN "ok" ELSE "ValueError",
                   d |-> error, result |-> NoDict, tools |-> NoTools]
    /\ UNCHANGED <<config, client, remote_tools, started, session,
                   runner_task, started_future, stop_requested,
                   runner_exception, lock, run, fut, cl>>

\* MCPClient(**config).
Construct ==
    /\ client = NotConstructed
    /\ client' = MCPClient_init(config)
    /\ UNCHANGED <<config, remote_tools, started, session, runner_task,
                   started_future, stop_requested, runner_exception, lock,
                   run, fut, cl, last>>

NextConfig == ValidateAuth \/ Construct

SpecConfig == ConfigInit /\ [][NextConfig]_vars

\* ===================================================================
\* Properties
\* ===================================================================
\* The fields of the controller are left as they are by a step.
CtrlUnchanged ==
    /\ started' = started
    /\ session' = session
    /\ runner_task' = runner_task
    /\ started_future' = started_future
    /\ stop_requested' = stop_requested
    /\ runner_exception' = runner_exception

\* The controller is back where __init__ left it (Idle).
Cleared ==
    /\ ~started
    /\ session = None
    /\ runner_task = None
    /\ started_future = None

\* initialize() handshakes completed so far, on any session.
Handshakes == Cardinality({r \in Runners : run[r].inited})

\* C1: on a started instance a further start() is a no-op: no runner task
\* and no future is created, stop-requested, the runner exception and the
\* session handle are left alone, start() returns, and the one handshake of
\* the current runner stays the only one it performed.
C1_SecondStartIsNoop ==
    [][(started /\ CallStart(1)) =>
          /\ run' = run /\ fut' = fut /\ CtrlUnchanged
          /\ last'.k = "ok" /\ last'.d = "already_started"
          /\ runner_task # None /\ run[runner_task].inited
          /\ Handshakes' = Handshakes]_vars

C1_Witness ==
    /\ started /\ runner_task # None /\ run[runner_task].pc = "idle"
    /\ last = [c |-> 1, op |-> "start", k |-> "ok", d |-> "already_started",
               result |-> NoDict, tools |-> NoTools]
    /\ Handshakes = 1

\* C2: stop() on an instance with no runner task and the started flag false
\* (never started, or just stopped) returns and changes nothing: no field
\* of the controller is written, no runner is launched or cancelled.
C2_StopOnIdleIsNoop ==
    [][\A c \in Callers :
          (~started /\ runner_task = None /\ CallStop(c)) =>
              /\ run' = run /\ fut' = fut /\ CtrlUnchanged /\ lock' = lock
              /\ session = None /\ started_future = None
              /\ last' = [c |-> c, op |-> "stop", k |-> "ok", d |-> "noop",
                          result |-> NoDict, tools |-> NoTools]]_vars

\* A stop() that did nothing, after an earlier one shut a live runner down.
C2_Witness ==
    /\ last = [c |-> 1, op |-> "stop", k |-> "ok", d |-> "noop",
               result |-> NoDict, tools |-> NoTools]
    /\ Cleared
    /\ \E r \in Runners : run[r].pc = "done" /\ run[r].inited /\ run[r].exc = NoExc

\* C3: when the startup timeout expires before the future is resolved,
\* start() sets stop-requested, cancels the runner task and waits for it to
\* end, and can only end by raising the startup-timeout error; when that
\* error is raised the handle, the task reference and the future are absent,
\* the started flag is false and no runner task is left running; a stop()
\* that follows is a no-op.
C3_TimeoutCancelsAndClears ==
    /\ [](cl[1].pc = "start_cancel_wait" =>
            /\ stop_requested /\ cl[1].aw = runner_task
            /\ (run[cl[1].aw].cancel \/ run[cl[1].aw].pc \in {"closing", "done"}))
    /\ []((last.k = "StartupTimeout") =>
            /\ Cleared /\ stop_requested
            /\ \A r \in Runners : ~Alive(Cur, r))
    /\ [][(cl[1].pc \in {"start_timedout", "start_cancel_wait"}
             /\ cl'[1].pc = "idle") => last'.k = "StartupTimeout"]_vars
    /\ [][(last.k = "StartupTimeout" /\ CallStop(1)) =>
             /\ CtrlUnchanged /\ run' = run /\ fut' = fut
             /\ last'.k = "ok" /\ last'.d = "noop"]_vars

\* The timeout error was raised after a runner that never got a channel (or
\* never finished the handshake) was cancelled.
C3_Witness ==
    /\ last.k = "StartupTimeout" /\ Cleared
    /\ \E r \in Runners :
          /\ run[r].pc = "done" /\ run[r].exc = "CancelledError"
          /\ ~run[r].inited /\ fut[r] = "cancelled"

\* C4: when start() resumes because the runner raised during the launch or
\* the handshake, it ends by raising the startup-failed error whose cause is
\* the runner's exception, whatever that exception is, with the state
\* cleared by stop().
C4_RunnerFailureIsWrapped ==
    [][(StartWake(1) /\ runner_exception # NoExc) =>
          /\ last'.k = "StartupFailed" /\ last'.d = runner_exception
          /\ Cleared']_vars

\* start() has just failed (the operation that ended last is a start() that
\* raised).
StartFailed == last.op = "start" /\ last.k \notin {"none", "ok"}

\* C5: after a failed start() the controller is Idle and no runner task is
\* left running; the next start() launches a new runner task with a new
\* pending future, stop-requested false and no runner exception; and once
\* that runner has completed its handshake and idles, the waiting start()
\* finds the future resolved and no exception, and returns with the started
\* flag set.
C5_RetryAfterFailedStart ==
    /\ [](StartFailed => (Cleared /\ \A r \in Runners : ~Alive(Cur, r)))
    /\ [][(StartFailed /\ CallStart(1)) =>
             LET r == NewRunner(Cur) IN
             /\ run[r].pc = "unborn" /\ fut[r] = "none"
             /\ run'[r].pc = "launch" /\ fut'[r] = "pending"
             /\ runner_task' = r /\ started_future' = r
             /\ ~stop_requested' /\ runner_exception' = NoExc]_vars
    /\ []((cl[1].pc = "start_wait" /\ run[cl[1].aw].pc = "idle") =>
             /\ fut[cl[1].aw] = "done" /\ runner_exception = NoExc
             /\ session = cl[1].aw /\ ~stop_requested)
    /\ [][(StartWake(1) /\ cl[1].op = "start" /\ run[cl[1].aw].pc = "idle") =>
             /\ started' /\ last'.k = "ok" /\ last'.d = "started"]_vars

\* A start() reached Ready with the second runner after the first attempt
\* failed.
C5_Witness ==
    /\ started /\ last.op = "start" /\ last.k = "ok" /\ last.d = "started"
    /\ run[1].pc = "done" /\ run[1].exc # NoExc /\ ~run[1].inited
    /\ runner_task = 2 /\ run[2].pc = "idle" /\ session = 2

\* The initial state of SpecCalls is a state the program reaches.
ReadyReachable == ~ReadyInit

\* The callers whose call-tool request is in flight on the session.
CallsInFlight ==
    {c \in Callers : cl[c].pc = "req_wait" /\ cl[c].req.kind = "call_tool"}

\* C6: with call_tool invoked concurrently on a started instance, at most
\* one call-tool request is in flight at any time and its caller holds the
\* lock; every call_tool invocation ends; and one that returns gives the
\* caller the content and error flag of the answer to its own request.
C6_CallsSerialized ==
    /\ [](/\ Cardinality(CallsInFlight) <= 1
          /\ \A c \in CallsInFlight : lock.holder = c)
    /\ [][\A c \in Callers :
            (Response(c) /\ cl[c].req.kind = "call_tool" /\ last'.k = "ok") =>
                /\ last'.c = c /\ last'.op = "call_tool"
                /\ last'.result.content =
                       RemoteResult(cl[c].req.name, cl[c].req.arguments,
                                    FALSE).content
                /\ DOMAIN last'.result = {"content", "isError"}]_vars
    /\ \A c \in Callers :
          (cl[c].op = "call_tool" /\ cl[c].pc # "idle") ~> (cl[c].pc = "idle")

\* One call is in flight while another invocation waits for the lock.
C6_Witness ==
    \E c, w \in Callers :
        /\ c # w /\ CallsInFlight = {c}
        /\ cl[w].pc = "lock_wait" /\ lock.waiters = <<w>>
        /\ cl[c].req.s = 1 /\ run[1].pc = "idle"

\* C7: at any time at most one runner task of the instance has not
\* finished, whatever the callers do.
C7_AtMostOneLiveRunner ==
    Cardinality({r \in Runners : Alive(Cur, r)}) <= 1

\* C8: a list-tools or call-tool request is in flight only on a session whose
\* own initialize() has returned, and while no runner has failed a future is
\* resolved only after an initialize() has returned.
C8_RequestsAfterHandshake ==
    /\ \A c \in Callers :
          cl[c].pc = "req_wait" => run[cl[c].req.s].inited
    /\ \A r \in Runners :
          (fut[r] = "done" /\ \A q \in Runners : run[q].exc = NoExc)
              => \E q \in Runners : run[q].inited

\* The places where stop() is suspended.
StopWaits == {"stop_wait", "stop_timeout_wait", "stop_cancel_wait"}

\* The runner task created last.
LastRunner == Cardinality(Launched(Cur))

\* Every runner task has finished, and runner r closed the session it had
\* initialized exactly once.
ShutDown(r) ==
    /\ \A q \in Runners : ~Alive(Cur, q) /\ run[q].closes <= 1
    /\ r # None /\ run[r].pc = "done" /\ run[r].inited /\ run[r].closes = 1

\* Caller c is inside an `async with` scope, or in the stop() of its exit.
InScope(c) ==
    /\ cl[c].op = "scope"
    /\ \/ cl[c].pc = "body"
       \/ cl[c].pc \in StopWaits /\ cl[c].ctx # "startfail"

\* C9: leaving an `async with` scope, normally or because the body raised,
\* runs stop(): stop-requested is set and the exit waits for the runner
\* task; and when the scope has been exited the session of the runner was
\* closed exactly once, no runner task is left running, and the handle, the
\* task reference and the future are absent with the started flag false.
C9_ScopeExitStops ==
    /\ [][\A c \in Callers : ExitScope(c) =>
             /\ stop_requested'
             /\ \/ cl'[c].pc = "stop_wait" /\ cl'[c].aw = runner_task
                \/ cl'[c].pc = "idle" /\ Terminated(Cur, runner_task)]_vars
    /\ [][\A c \in Callers : (InScope(c) /\ cl'[c].pc = "idle") =>
             /\ Cleared' /\ ShutDown(LastRunner)'
             /\ last'.c = c /\ last'.op = "scope"]_vars
    /\ []((last.op = "scope" /\ last.k \in {"ok", "BodyError"}) =>
             (Cleared /\ ShutDown(LastRunner)))

\* The scope was left by an exception of its body after the runner had
\* finished the handshake; the runner closed its session and ended.
C9_Witness ==
    /\ last.op = "scope" /\ last.k = "BodyError" /\ Cleared
    /\ run[1].pc = "done" /\ run[1].inited /\ run[1].closes = 1
    /\ run[1].exc = NoExc

\* The instance is Ready: started, with its runner in the idle loop.
Ready ==
    /\ started /\ runner_task # None /\ session = runner_task
    /\ run[runner_task].pc = "idle"

\* C10: stop() on a Ready instance sets stop-requested and waits for the
\* runner task; it goes on only when that task has finished, having left
\* the idle loop and closed its session once; and when stop() has returned
\* the handle, the task reference and the future are absent, the started
\* flag is false and no runner task is left running.
C10_StopShutsDown ==
    /\ [][\A c \in Callers : (Ready /\ CallStop(c)) =>
             /\ stop_requested' /\ run' = run
             /\ cl'[c].pc = "stop_wait" /\ cl'[c].aw = runner_task]_vars
    /\ [](\A c \in Callers :
             (cl[c].op = "stop" /\ cl[c].pc \in StopWaits) =>
                 (stop_requested /\ runner_task = cl[c].aw))
    /\ [][\A c \in Callers :
             (cl[c].op = "stop" /\ cl[c].pc \in StopWaits
                 /\ cl'[c].pc = "idle") =>
                 /\ ShutDown(cl[c].aw)
                 /\ Cleared' /\ run' = run]_vars
    /\ []((last.op = "stop" /\ last.k = "ok" /\ last.d = "stopped") =>
             (Cleared /\ ShutDown(LastRunner)))

\* A stop() on a Ready instance has returned after the runner left its idle
\* loop on stop-requested and closed the session.
C10_Witness ==
    /\ last = [c |-> 1, op |-> "stop", k |-> "ok", d |-> "stopped",
               result |-> NoDict, tools |-> NoTools]
    /\ Cleared /\ stop_requested
    /\ run[1].pc = "done" /\ run[1].inited /\ run[1].closes = 1
    /\ run[1].exc = NoExc /\ ~run[1].cancel

\* Nothing was launched yet: the instance is as the constructor left it.
Fresh == Launched(Cur) = {}

\* C11: the constructor launches no runner task and opens no transport;
\* while nothing was launched the instance is Idle; the first start(),
\* list_tools, call_tool or scope entry on it launches exactly one runner
\* task, which has not opened its transport yet, and nothing else launches
\* one; and when the list_tools or call_tool that launched the first runner
\* issues its request, that runner is still the only one launched and its
\* transport is the one the request goes to.
C11_LazyStart ==
    /\ Fresh /\ Cleared
    /\ [](Fresh => (Cleared /\ \A r \in Runners : ~run[r].opened))
    /\ [][\A c \in Callers :
             (Fresh /\ (CallStart(c) \/ CallListTools(c) \/ CallTool(c)
                           \/ EnterScope(c))) =>
                 /\ Launched(Cur)' = {1} /\ runner_task' = 1
                 /\ run'[1].pc = "launch" /\ ~run'[1].opened
                 /\ cl'[c].pc = "start_wait"]_vars
    /\ [][(Fresh /\ ~Fresh') =>
             \E c \in Callers : cl[c].pc = "idle" /\ cl'[c].pc = "start_wait"]_vars
    /\ [][\A c \in Callers :
             (Launched(Cur) = {1} /\ cl[c].pc = "start_wait"
                 /\ cl'[c].pc \in {"req_wait", "lock_wait"}) =>
                 /\ Launched(Cur)' = {1} /\ run'[1].opened /\ run'[1].closes = 0
                 /\ cl'[c].pc = "req_wait" /\ cl'[c].req.s = 1]_vars

\* A list_tools on a new instance launched the first runner, which opened
\* its transport and finished the handshake; the caller has not resumed.
C11_Witness ==
    /\ cl[1].op = "list_tools" /\ cl[1].pc = "start_wait"
    /\ Launched(Cur) = {1} /\ run[1].pc = "idle" /\ run[1].opened
    /\ session = 1 /\ ~started

\* C12: as long as no runner task has raised, no list_tools or call_tool
\* ends with the assertion after its start() failing: the session handle is
\* present whenever start() has returned, whatever the callers' start(),
\* stop(), list_tools and call_tool do in between.
C12_SessionPresentAfterStart ==
    (\A r \in Runners : run[r].exc = NoExc) => last.k # "AssertionError"

\* C13: a call_tool(name, arguments) keeps name and arguments as given
\* until its request is issued and issues it with exactly these; it issues
\* one request only, ending as soon as that request is answered or fails;
\* and when the request is answered, flagged as an error or not, call_tool
\* returns the dict of exactly the answer's content and isError.
C13_CallToolVerbatim ==
    /\ [][\A c \in Callers : \A name \in ToolNames, arguments \in Arguments :
             (/\ cl[c].pc = "idle" /\ CanLaunch
              /\ Becomes(start([Begin(Cur, c, "call_tool", name)
                                   EXCEPT !.cl[c].req.arguments = arguments], c))
              /\ cl'[c].pc # "idle") =>
                 cl'[c].req.name = name /\ cl'[c].req.arguments = arguments]_vars
    /\ [][\A c \in Callers :
             (cl[c].op = "call_tool" /\ cl[c].pc # "idle" /\ cl'[c].pc # "idle") =>
                 /\ cl'[c].req.name = cl[c].req.name
                 /\ cl'[c].req.arguments = cl[c].req.arguments
                 /\ cl[c].pc = "req_wait" => cl'[c] = cl[c]
                 /\ cl'[c].pc = "req_wait" =>
                        cl'[c].req.kind = "call_tool" /\ cl'[c].req.s # None]_vars
    /\ [][\A c \in Callers : \A isError \in BOOLEAN :
             (/\ cl[c].pc = "req_wait" /\ cl[c].req.kind = "call_tool"
              /\ Becomes(request_done(Cur, c, TRUE, isError))) =>
                 /\ cl'[c].pc = "idle"
                 /\ last' = [c |-> c, op |-> "call_tool", k |-> "ok",
                              d |-> "dict",
                              result |->
                                  [content |-> RemoteResult(cl[c].req.name,
                                       cl[c].req.arguments, isError).content,
                                   isError |-> isError],
                              tools |-> NoTools]]_vars
    /\ [][\A c \in Callers :
             (cl[c].req.kind = "call_tool" /\ Response(c)) =>
                 cl'[c].pc = "idle" /\ last'.k \in {"ok", "TransportError"}]_vars

\* A call_tool that launched the runner itself returned an answer flagged
\* as an error.
C13_Witness ==
    /\ last.c = 1 /\ last.op = "call_tool" /\ last.k = "ok"
    /\ last.result = [content |-> <<"tB", "{q: 1}">>, isError |-> TRUE]
    /\ started /\ run[1].pc = "idle"

\* Which credentials the constructor call gives (not None).
HasWorkspaceKey == config.workspace_key # Absent
HasSkillKey == config.skill_key # Absent

\* _validate_auth was called on its own and returned.
Validated == last.op = "_validate_auth" /\ last.k = "ok"

\* C14 as stated, a name being present when it is not None and absent when
\* it is None: _validate_auth returns exactly when exactly one credential
\* is given, with a name present for the workspace credential and absent
\* for the scoped one.
C14_ValidExactlyWhen ==
    last.op = "_validate_auth" =>
        (Validated <=>
            /\ HasWorkspaceKey # HasSkillKey
            /\ HasWorkspaceKey => config.name # Absent
            /\ HasSkillKey => config.name = Absent)

\* C14 amended: _validate_auth returns exactly when exactly one credential
\* is given (an empty one counts as given), with a non-empty name for the
\* workspace credential and a name that is None or empty for the scoped
\* one; the call changes nothing but its own outcome and needs no instance.
C14_ValidExactlyWhenNonEmptyName ==
    /\ [](last.op = "_validate_auth" =>
            (Validated <=>
                /\ HasWorkspaceKey # HasSkillKey
                /\ HasWorkspaceKey => Truthy(config.name)
                /\ HasSkillKey => ~Truthy(config.name)))
    /\ []((last = NoLast /\ client = NotConstructed) => ENABLED ValidateAuth)
    /\ [][ValidateAuth =>
             /\ config' = config /\ client' = client
             /\ Cur' = [Cur EXCEPT !.last = last']]_vars

\* _validate_auth accepted an empty name with the scoped credential, before
\* any instance was made.
C14_Witness ==
    /\ Validated /\ client = NotConstructed
    /\ config.name = "" /\ config.skill_key = "SKL_9"
    /\ config.workspace_key = Absent

\* The ValueError that names the rule the arguments break (a name being
\* given when it is a non-empty string), or Valid.
RuleBroken ==
    IF ~HasWorkspaceKey /\ ~HasSkillKey THEN "Authentication required"
    ELSE IF HasWorkspaceKey /\ HasSkillKey THEN "Authentication conflict"
    ELSE IF HasWorkspaceKey /\ config.name \in {Absent, ""}
    THEN "must provide a 'name' parameter"
    ELSE IF HasSkillKey /\ config.name \notin {Absent, ""}
    THEN "do not provide a 'name' parameter"
    ELSE Valid

\* The constructor call was rejected.
Rejected == client # NotConstructed /\ ~client.ok

\* C15: the constructor and _validate_auth reject the arguments with the
\* error of the rule broken: no credential, 'Authentication required', and
\* both credentials, 'Authentication conflict', whatever the name; the
\* workspace credential without a name, the missing-name error; the scoped
\* credential with a name, the name-not-allowed error; and after a rejected
\* construction there is no object (no name, no serverParams), no runner
\* task and no transport.
C15_RejectionNamesRule ==
    /\ (last.op = "_validate_auth" /\ last.k = "ValueError") =>
           (last.d = RuleBroken /\ RuleBroken # Valid)
    /\ Validated => RuleBroken = Valid
    /\ client # NotConstructed => (client.ok <=> RuleBroken = Valid)
    /\ Rejected =>
           /\ client = [ok |-> FALSE, error |-> RuleBroken]
           /\ Fresh /\ Cleared /\ \A r \in Runners : ~run[r].opened

\* MCPClient(name="My Agent", workspace_key="WSK_1", skill_key="SKL_9") was
\* rejected as a conflict.
C15_Witness ==
    /\ Rejected /\ client.error = "Authentication conflict"
    /\ config.name = "My Agent" /\ config.workspace_key = "WSK_1"
    /\ config.skill_key = "SKL_9" /\ Fresh

\* The constructor call was accepted: the object exists.
Accepted == client # NotConstructed /\ client.ok

\* C16: the environment of an accepted configuration holds exactly one of
\* WORKSPACE_KEY and SKILL_KEY, the one of the credential given, with the
\* value given, and holds SKILL_NAME exactly when the workspace credential
\* was the one given.
C16_ExactlyOneCredentialKey ==
    Accepted =>
        LET env == client.serverParams.env IN
        /\ Cardinality(DOMAIN env \cap {"WORKSPACE_KEY", "SKILL_KEY"}) = 1
        /\ HasWorkspaceKey =>
               /\ "WORKSPACE_KEY" \in DOMAIN env
               /\ env["WORKSPACE_KEY"] = config.workspace_key
        /\ HasSkillKey =>
               /\ "SKILL_KEY" \in DOMAIN env
               /\ env["SKILL_KEY"] = config.skill_key
        /\ "SKILL_NAME" \in DOMAIN env <=> HasWorkspaceKey

\* C17: the environment of an accepted configuration always holds
\* NATS_SERVERS, with the address given or nats://localhost:4222 when none
\* was given; it holds LOG_LEVEL only when a non-empty log level was given,
\* with that value; and it holds no key besides NATS_SERVERS, the two
\* credential keys, SKILL_NAME and LOG_LEVEL.
C17_EndpointAndLogLevel ==
    Accepted =>
        LET env == client.serverParams.env IN
        /\ "NATS_SERVERS" \in DOMAIN env
        /\ env["NATS_SERVERS"] =
               (IF config.nats_servers = Absent THEN "nats://localhost:4222"
                ELSE config.nats_servers)
        /\ "LOG_LEVEL" \in DOMAIN env =>
               /\ config.log_level \notin {Absent, ""}
               /\ env["LOG_LEVEL"] = config.log_level
        /\ DOMAIN env \subseteq {"NATS_SERVERS", "WORKSPACE_KEY", "SKILL_KEY",
                                 "SKILL_NAME", "LOG_LEVEL"}
        /\ DOMAIN env \cap {"RUNTIME_NAME", "WORKSPACE_ID"} = {}

\* An instance made with an empty log level and no address: the default
\* address, no LOG_LEVEL.
C17_Witness ==
    /\ Accepted /\ config.log_level = "" /\ config.nats_servers = Absent
    /\ config.skill_key = "SKL_9"
    /\ client.serverParams.env =
           [NATS_SERVERS |-> "nats://localhost:4222", SKILL_KEY |-> "SKL_9"]

\* C18: an accepted configuration is launched with the command npx and the
\* single argument "@skilder-ai/runtime@" followed by the version given,
\* "latest" when none was given.
C18_VersionInArguments ==
    Accepted =>
        /\ client.serverParams.command = "npx"
        /\ client.serverParams.args =
               <<"@skilder-ai/runtime@" \o
                   (IF config.version = Absent THEN "latest" ELSE config.version)>>

\* The runner task the instance refers to has ended by raising.
RunnerFailed ==
    /\ runner_task # None /\ Terminated(Cur, runner_task)
    /\ run[runner_task].exc # NoExc

\* C19: a stop() called when the runner task has already ended with an
\* exception returns without raising and leaves the instance cleared,
\* whether it is called by the user after a crash of a Ready instance or by
\* start() after a failed launch or handshake (start() then raises its own
\* startup-failed error).
C19_StopSafeAfterRunnerFailure ==
    /\ [][\A c \in Callers : (RunnerFailed /\ started /\ CallStop(c)) =>
             (last'.op = "stop" /\ last'.k = "ok" /\ Cleared')]_vars
    /\ [][\A c \in Callers :
             (RunnerFailed /\ runner_exception # NoExc /\ StartWake(c)) =>
                 (last'.k = "StartupFailed" /\ Cleared')]_vars

\* C20: the session handle is set only while the runner that owns the
\* session is running with its initialize() handshake completed: it is
\* absent before that handshake has succeeded and after the runner ended.
C20_HandleOnlyAfterHandshake ==
    session # None => (run[session].inited /\ Alive(Cur, session))

\* Runner r has ended with everything it opened closed: its channel and
\* session were closed once if it got them, and never otherwise.
ClosedAll(r) ==
    /\ run[r].pc = "done"
    /\ run[r].closes = (IF run[r].opened THEN 1 ELSE 0)

\* C21: a runner task that ends, by returning after stop was requested, by
\* an exception or by a cancellation during the launch, the handshake or
\* the idle sleep, has closed the channel and the session it opened and
\* leaves the session handle absent in the step that ends it; an ended task
\* writes nothing any more.
C21_RunnerCleansUp ==
    /\ [][\A r \in Runners :
             (run[r].pc # "done" /\ run'[r].pc = "done") =>
                 (session' = None /\ ClosedAll(r)')]_vars
    /\ [](\A r \in Runners : Terminated(Cur, r) => ClosedAll(r))
    /\ [][\A r \in Runners : Terminated(Cur, r) => run'[r] = run[r]]_vars

\* A runner cancelled during the handshake has ended: it closed what it
\* had opened and the handle is absent.
C21_Witness ==
    /\ run[1].pc = "done" /\ run[1].exc = "CancelledError"
    /\ run[1].opened /\ ~run[1].inited /\ run[1].closes = 1
    /\ session = None

\* C22: start() in its timeout handler and stop() after its own timeout go
\* on only when the runner they cancelled has ended, and it ended with
\* what it had opened closed: when start() has raised the startup-timeout
\* error or such a stop() is over, no runner task is running and no
\* channel or session is open, also when the runner was cancelled during
\* the handshake.
C22_CancelWaitsForCleanup ==
    /\ [][(cl[1].pc \in {"start_cancel_wait", "stop_timeout_wait",
                          "stop_cancel_wait"} /\ cl'[1].pc # cl[1].pc) =>
             (ClosedAll(cl[1].aw) /\ run' = run /\ cl'[1].pc = "idle")]_vars
    /\ [][(cl[1].pc \in {"start_timedout", "start_cancel_wait"}
              /\ cl'[1].pc = "idle") =>
             (last'.k = "StartupTimeout"
                 /\ \A r \in Launched(Cur) : ClosedAll(r)')]_vars
    /\ [](last.k = "StartupTimeout" => \A r \in Launched(Cur) : ClosedAll(r))
    /\ []((last.op = "stop" /\ last.k # "none" /\ last.d # "noop") =>
             \A r \in Launched(Cur) : ClosedAll(r))

\* A first start() timed out with its runner in the handshake, and a
\* stop() of the second, Ready, runner timed out as well: both runners
\* ended cancelled, each with its session closed.
C22_Witness ==
    /\ last.op = "stop" /\ last.k = "ok" /\ last.d = "stopped"
    /\ run[1].exc = "CancelledError" /\ ~run[1].inited /\ run[1].opened
    /\ run[2].exc = "CancelledError" /\ run[2].inited
    /\ ClosedAll(1) /\ ClosedAll(2) /\ fut[1] = "cancelled"

\* C23: a runner that raises during the launch or the handshake stores its
\* exception in the runner-exception slot and resolves the future that is
\* still pending in the step that ends it; the start() that waits for this
\* future can then go on at once, its timeout cannot expire any more, and
\* it ends with an error without any timeout.
C23_FailureUnblocksStart ==
    /\ [][\A r \in Runners :
             (run[r].pc # "done" /\ run'[r].pc = "done"
                 /\ ~run[r].inited /\ run'[r].exc # NoExc) =>
                 /\ runner_exception' = run'[r].exc
                 /\ fut[r] = "pending" => fut'[r] = "done"
                 /\ fut'[r] # "pending"]_vars
    /\ []((cl[1].pc = "start_wait" /\ Terminated(Cur, cl[1].aw)) =>
             /\ fut[cl[1].aw] = "done" /\ runner_exception = run[cl[1].aw].exc
             /\ ENABLED StartWake(1) /\ ~ENABLED StartTimeout(1))
    /\ [][(StartWake(1) /\ ~run[cl[1].aw].inited) =>
             /\ cl'[1].pc = "idle" /\ last'.k \notin {"ok", "StartupTimeout"}
             /\ fut'[cl[1].aw] = "done"]_vars

\* The runner's handshake failed; its exception is stored, the future is
\* resolved and the start() that waits for it has not resumed yet.
C23_Witness ==
    /\ cl[1].pc = "start_wait" /\ cl[1].aw = 1
    /\ run[1].pc = "done" /\ run[1].opened /\ ~run[1].inited
    /\ run[1].exc = "Error" /\ runner_exception = "Error"
    /\ fut[1] = "done"

\* The states of a future: not created, pending, resolved by set_result,
\* cancelled by the wait_for that timed out.
FutureStates == {"none", "pending", "done", "cancelled"}

\* C24: a start() that launches a runner creates a new future, pending,
\* and makes it the one the instance refers to and the one it waits for; a
\* future changes only from pending to resolved or cancelled, so it is
\* resolved at most once; and a runner that comes to lines 398 or 404 when
\* the future is no longer pending (it failed after its own success, the
\* timeout cancelled the future, or another runner resolved it) leaves the
\* future as it is and ends with its own outcome, never with the error of
\* a second set_result.
C24_FutureResolvedOnce ==
    /\ [][\A c \in Callers :
             (cl[c].pc = "idle" /\ cl'[c].pc = "start_wait") =>
                 LET r == NewRunner(Cur) IN
                 /\ fut[r] = "none" /\ fut'[r] = "pending"
                 /\ started_future' = r /\ cl'[c].aw = r
                 /\ \A q \in Runners \ {r} : fut'[q] = fut[q]]_vars
    /\ [][\A r \in Runners :
             fut'[r] # fut[r] =>
                 \/ fut[r] = "none" /\ fut'[r] = "pending"
                 \/ fut[r] = "pending" /\ fut'[r] \in {"done", "cancelled"}]_vars
    /\ [](\A r \in Runners :
             /\ fut[r] \in FutureStates
             /\ run[r].exc \in ExcKinds \cup {NoExc, "CancelledError"})
    /\ [][\A r \in Runners :
             (RunnerInitOK(r) /\ started_future # None
                 /\ fut[started_future] # "pending") =>
                 (fut' = fut /\ run'[r].inited /\ run'[r].exc = NoExc)]_vars

\* Both runners of two overlapping start() calls finished the handshake:
\* the first resolved the future of the second attempt, the second found it
\* resolved; the future of the first attempt is resolved by nobody.
C24_Witness ==
    /\ \A c \in Callers : cl[c].pc = "start_wait"
    /\ started_future = 2
    /\ run[1].inited /\ run[2].inited
    /\ fut[1] = "pending" /\ fut[2] = "done"
    /\ run[1].exc = NoExc /\ run[2].exc = NoExc

\* C25: the session handle is changed by steps of runner tasks only, never
\* by a step of start() or stop() run by a caller task, and stop-requested
\* is changed by steps of caller tasks only.
C25_SingleWriter ==
    /\ [][\A c \in Callers : StartStopStep(c) => session' = session]_vars
    /\ [][\A r \in Runners :
             RunnerStep(r) => stop_requested' = stop_requested]_vars

\* C26: when the timeout of stop() expires before the runner has ended,
\* the runner task is cancelled and stop() waits for it to end; stop()
\* then returns without raising, whatever the cancelled runner ended with,
\* and leaves the handle, the task reference and the future absent and the
\* started flag false.
C26_StopTimeoutReturns ==
    /\ [][(cl[1].op = "stop" /\ StopTimeout(1)) =>
             (stop_requested /\ run'[cl[1].aw].cancel
                 /\ cl'[1].pc = "stop_timeout_wait")]_vars
    /\ [][(cl[1].op = "stop" /\ cl[1].pc = "stop_timeout_wait"
              /\ cl'[1].pc # cl[1].pc) =>
             /\ Terminated(Cur, cl[1].aw)
             /\ last'.op = "stop" /\ last'.k = "ok"
             /\ Cleared']_vars

\* A stop() called on the Ready instance waits for the runner, which still
\* sleeps in its idle loop.
StopPending ==
    /\ cl[1].op = "stop" /\ cl[1].pc = "stop_wait"
    /\ run[cl[1].aw].pc = "idle" /\ ~run[cl[1].aw].cancel

\* The runner created last left its idle loop because it saw the flag,
\* closed its session and channel and ended.
EndedOnRequest ==
    /\ ShutDown(LastRunner) /\ run[LastRunner].exc = NoExc

\* The runner created last has ended.
RunnerEnded == LastRunner # None /\ Terminated(Cur, LastRunner)

\* The runner created last got an exception: its session broke or it was
\* cancelled.
RunnerBroke == LastRunner # None /\ run[LastRunner].exc # NoExc

\* C27: after stop() was called on a Ready instance the runner can see
\* stop-requested at its next poll and then leaves the loop, closes, and
\* ends; the runner eventually ends and stop() eventually is over; unless
\* the session breaks or the timeout of stop() expires first, the runner
\* ends by having seen the flag and stop() returns with the instance
\* cleared; and stop() is over only when the runner it waited for has
\* ended.
C27_StopEventuallyReturns ==
    /\ [][(Ready /\ CallStop(1)) => StopPending']_vars
    /\ [](StopPending =>
             (stop_requested /\ cl[1].aw = runner_task
                 /\ ENABLED RunnerPoll(cl[1].aw)))
    /\ [][\A r \in Runners : RunnerPoll(r) =>
             (run'[r].pc = "closing" /\ run'[r].exc = NoExc)]_vars
    /\ StopPending ~> (cl[1].pc = "idle" /\ RunnerEnded)
    /\ StopPending ~>
          \/ last.op = "stop" /\ last.k = "ok" /\ Cleared /\ EndedOnRequest
          \/ RunnerBroke
    /\ [][(cl[1].op = "stop" /\ cl[1].pc \in StopWaits /\ cl'[1].pc = "idle")
             => Terminated(Cur, cl[1].aw)]_vars

\* stop() has returned after the runner saw the flag in its idle loop.
C27_Witness ==
    /\ last.op = "stop" /\ last.k = "ok" /\ last.d = "stopped"
    /\ Cleared /\ EndedOnRequest /\ LastRunner = 1 /\ fut[1] = "done"

\* Caller c is inside start(), the stop() of its line 362 included.
InStart(c) ==
    \/ cl[c].pc \in {"start_wait", "start_timedout", "start_cancel_wait"}
    \/ cl[c].pc \in StopWaits /\ cl[c].ctx = "startfail"

\* C28: every start() is over eventually, also when the launch or the
\* handshake never ends: a start() on a started instance returns at once;
\* one that launched a runner returns with the started flag set when the
\* future was resolved without a runner exception, raises the
\* startup-timeout error when the timeout cancelled the future, and then
\* only after the cancelled runner has ended, and raises otherwise when
\* the runner failed.
C28_StartTerminates ==
    /\ InStart(1) ~> ~InStart(1)
    /\ [][(started /\ CallStart(1)) => cl'[1].pc = "idle"]_vars
    /\ [][(InStart(1) /\ ~InStart(1)') =>
             \/ /\ started' /\ runner_exception = NoExc
                /\ fut[cl[1].aw] = "done"
             \/ /\ last'.k = "StartupTimeout" /\ fut[cl[1].aw] = "cancelled"
                /\ Terminated(Cur, cl[1].aw) /\ Cleared'
             \/ /\ runner_exception # NoExc /\ fut[cl[1].aw] = "done"
                /\ cl'[1].pc = "idle"
                /\ last'.k \notin {"none", "ok", "StartupTimeout"}]_vars

\* start() raised the startup-timeout error for a runner whose launch never
\* came to an end.
C28_Witness ==
    /\ last.op = "start" /\ last.k = "StartupTimeout" /\ Cleared
    /\ run[1].pc = "done" /\ ~run[1].opened /\ run[1].exc = "CancelledError"
    /\ fut[1] = "cancelled"

\* C29: a call-tool request that raises a transport error ends its
\* call_tool with that error, raised to its own caller; the lock is free
\* again with the waiting invocations still queued, and the first of them
\* can take it; the step launches nothing, issues no other request and
\* leaves the started flag, the handle, the task reference and the future
\* as they are; and as long as nobody calls stop() the flag, the task
\* reference and the future stay so, no further runner is launched, and
\* the handle changes only when the runner itself ends.
C29_TransportErrorPropagates ==
    /\ [][\A c \in Callers :
             (Response(c) /\ cl[c].req.kind = "call_tool"
                 /\ last'.k = "TransportError") =>
                 /\ last' = [c |-> c, op |-> "call_tool",
                              k |-> "TransportError", d |-> "none",
                              result |-> NoDict, tools |-> NoTools]
                 /\ cl' = [cl EXCEPT ![c] = IdleCaller]
                 /\ lock.holder = c
                 /\ lock' = [lock EXCEPT !.holder = None]
                 /\ CtrlUnchanged /\ run' = run /\ fut' = fut]_vars
    /\ []((lock.holder = None /\ lock.waiters # <<>>) =>
             ENABLED LockAcquire(Head(lock.waiters)))
    /\ [](started /\ runner_task = 1 /\ started_future = 1
             /\ Launched(Cur) = {1})
    /\ [][session' # session => RunnerClose(1)]_vars

\* A call_tool ended with the transport error of its request while another
\* invocation waits for the lock; the session is as it was.
C29_Witness ==
    /\ last.op = "call_tool" /\ last.k = "TransportError"
    /\ lock.holder = None /\ Len(lock.waiters) = 1
    /\ cl[Head(lock.waiters)].pc = "lock_wait"
    /\ started /\ session = 1 /\ run[1].pc = "idle"

\* C30: an invocation of call_tool that waits for the lock is queued, it
\* stops waiting only by taking the lock, and it eventually does, as long
\* as every request issued is answered or raises: no other caller can keep
\* it waiting for ever.
C30_NoStarvation ==
    /\ [](\A c \in Callers :
             cl[c].pc = "lock_wait" =>
                 /\ \E i \in DOMAIN lock.waiters : lock.waiters[i] = c
                 /\ lock.holder # c)
    /\ [][\A c \in Callers :
             (cl[c].pc = "lock_wait" /\ cl'[c].pc # "lock_wait") =>
                 LockAcquire(c)]_vars
    /\ \A c \in Callers : (cl[c].pc = "lock_wait") ~> (cl[c].pc # "lock_wait")

\* An invocation that had to wait holds the lock and has its request in
\* flight, after the call of the other caller returned.
C30_Witness ==
    \E c, w \in Callers :
        /\ c # w /\ lock.holder = w
        /\ cl[w].pc = "req_wait" /\ cl[w].req.kind = "call_tool"
        /\ cl[c].pc = "idle"
        /\ last.c = c /\ last.op = "call_tool" /\ last.k = "ok"


\* The listing a get_langchain_tools()/list_tools() call of caller c returns
\* when the session answers `remote`: as many tools, in the same order, each
\* with the name listed, the description listed or "" when there is none, and
\* the schema listed or the empty mapping when there is none.
ListingOf(tools, remote) ==
    /\ Len(tools) = Len(remote)
    /\ \A i \in 1..Len(remote) :
          /\ tools[i].name = remote[i].name
          /\ tools[i].description =
                 (IF remote[i].description = Absent THEN ""
                  ELSE remote[i].description)
          /\ tools[i].input_schema =
                 (IF remote[i].inputSchema = Absent THEN EmptyMapping
                  ELSE remote[i].inputSchema)

\* C31: a get_langchain_tools()/list_tools() call on a started instance sends
\* one list-tools request on the live session, whatever earlier calls
\* returned, and ends with the answer to that request; it returns one tool
\* object per tool the session lists at that moment, in the listed order,
\* with the listed name, the description ("" when absent) and the schema (the
\* empty mapping when absent).
C31_ListToolsMapsDescriptors ==
    /\ [][\A c \in Callers :
             (CallListTools(c) /\ started /\ session # None) =>
                 /\ cl'[c].pc = "req_wait"
                 /\ cl'[c].req.kind = "list_tools"
                 /\ cl'[c].req.s = session]_vars
    /\ [][\A c \in Callers :
             (Response(c) /\ cl[c].op = "list_tools") =>
                 /\ cl'[c].pc = "idle"
                 /\ last'.k = "ok" =>
                        /\ last'.d = "tools"
                        /\ ListingOf(last'.tools, remote_tools)]_vars

\* A call returned two tools; the first had neither description nor schema.
C31_Witness ==
    /\ last.op = "list_tools" /\ last.k = "ok"
    /\ Len(remote_tools) = 2
    /\ remote_tools[1].description = Absent
    /\ remote_tools[1].inputSchema = Absent
    /\ remote_tools[2].description = "A"
    /\ remote_tools # DefaultTools
    /\ last.tools = <<[name |-> remote_tools[1].name, description |-> "",
                       input_schema |-> EmptyMapping],
                      [name |-> remote_tools[2].name, description |-> "A",
                       input_schema |-> remote_tools[2].inputSchema]>>


\* The positions at which the session lists a tool called tool_name.
Listed(remote, tool_name) ==
    {i \in 1..Len(remote) : remote[i].name = tool_name}

\* C32: get_tool_by_name(tool_name) on a started instance sends a list-tools
\* request of its own and ends with its answer; it returns the tool object
\* of the first listed tool whose name equals tool_name, and None when no
\* listed tool has that name.
C32_FirstToolOfThatName ==
    /\ [][\A c \in Callers :
             (CallGetToolByName(c) /\ started /\ session # None) =>
                 /\ cl'[c].pc = "req_wait"
                 /\ cl'[c].req.kind = "list_tools"
                 /\ cl'[c].req.s = session]_vars
    /\ [][\A c \in Callers :
             (Response(c) /\ cl[c].op = "get_tool_by_name") =>
                 /\ cl'[c].pc = "idle"
                 /\ last'.k = "ok" =>
                      LET at == Listed(remote_tools, cl[c].req.name) IN
                      IF at = {}
                      THEN last'.d = "None" /\ last'.tools = <<>>
                      ELSE LET first == CHOOSE i \in at : \A j \in at : i <= j
                           IN /\ last'.d = "tool"
                              /\ Len(last'.tools) = 1
                              /\ ListingOf(last'.tools,
                                           <<remote_tools[first]>>)]_vars

\* Two tools of one name are listed; the lookup returned the first of them,
\* which differs from the second.
C32_Witness ==
    /\ last.op = "get_tool_by_name" /\ last.k = "ok" /\ last.d = "tool"
    /\ Len(remote_tools) = 2
    /\ remote_tools[1].name = remote_tools[2].name
    /\ remote_tools[1].description = "A"
    /\ remote_tools[2].description = Absent
    /\ last.tools[1].name = remote_tools[1].name
    /\ last.tools[1].description = "A"


\* C33: in every reachable state in which started is true, the session
\* handle is set and the runner task recorded is a runner that is alive.
C33_StartedMeansLive ==
    started => /\ session # None
               /\ runner_task # None
               /\ Alive(Cur, runner_task)


\* C34: with two callers starting the instance, a start() that waits for
\* readiness waits on the future the instance holds (none has been replaced),
\* and a start() whose timeout handler runs cancels only the runner it
\* launched itself.
C34_ConcurrentStartsShareOneAttempt ==
    /\ [](\A c \in Callers :
             cl[c].pc = "start_wait" => started_future = cl[c].aw)
    /\ [][\A c \in Callers :
             StartTimeoutHandler(c) =>
                 (runner_task = None \/ runner_task = cl[c].aw)]_vars


\* No start() or stop() is running: every caller is between two operations.
NoCallInProgress == \A c \in Callers : cl[c].pc = "idle"

\* C35: whenever started is false and no call is in progress, no runner task
\* the instance launched is alive, and every channel opened has been closed.
C35_NoOrphanedRunner ==
    (~started /\ NoCallInProgress) =>
        \A r \in Runners :
            /\ ~Alive(Cur, r)
            /\ run[r].opened => run[r].closes = 1


\* C36: as long as no runner task has raised, a call_tool that waited for
\* the lock finds, when it gets it, the handle set to a session whose runner
\* has not closed it, and sends its request on that session.
C36_SessionLiveUnderLock ==
    [][\A c \in Callers :
          (LockAcquire(c) /\ \A r \in Runners : run[r].exc = NoExc) =>
              /\ session # None
              /\ run[session].pc = "idle"
              /\ cl'[c].pc = "req_wait"
              /\ cl'[c].req.s = session]_vars


\* The callers whose request on session s is in flight.
InFlight(s) == {c \in Callers : cl[c].pc = "req_wait" /\ cl[c].req.s = s}

\* C37: at most one request is in flight on a session at any time, list-tools
\* requests included.
C37_AllRequestsSerialized ==
    \A s \in Runners : Cardinality(InFlight(s)) <= 1


\* A stop() is waiting for runner r.
StopCalledFor(r) ==
    \E c \in Callers : cl[c].pc \in StopWaits /\ cl[c].aw = r

\* C38: start() launches its runner with stop-requested cleared, so the
\* runner enters its idle loop when the handshake ends and leaves it on the
\* flag only for a stop() called since; while the instance is started and
\* its runner has neither been stopped, nor cancelled, nor failed, the runner
\* idles with its session open and the flag clear.
C38_NoLeftoverStopRequest ==
    /\ [][\A c \in Callers :
             (cl[c].pc = "idle" /\ cl'[c].pc = "start_wait") =>
                 /\ ~stop_requested'
                 /\ run[cl'[c].aw].pc = "unborn"
                 /\ run'[cl'[c].aw].pc = "launch"]_vars
    /\ [][\A r \in Runners :
             /\ RunnerInitOK(r) => run'[r].pc = "idle"
             /\ RunnerPoll(r) => StopCalledFor(r)]_vars
    /\ [](\A r \in Runners :
             (/\ started /\ runner_task = r
              /\ ~StopCalledFor(r) /\ ~run[r].cancel /\ run[r].exc = NoExc) =>
                 /\ run[r].pc = "idle" /\ session = r
                 /\ run[r].opened /\ run[r].closes = 0
                 /\ ~stop_requested)

\* A second cycle: the first runner ended on a stop request, and the runner
\* of the next start() idles with its session open.
C38_Witness ==
    /\ run[1].pc = "done" /\ run[1].exc = NoExc /\ run[1].closes = 1
    /\ started /\ runner_task = 2 /\ session = 2
    /\ run[2].pc = "idle" /\ ~stop_requested
    /\ last.op = "start" /\ last.k = "ok" /\ last.d = "started"


====
